---- MODULE Spec2Model ----
(***************************************************************************)
(* Model of src/pomodoro.py: the PomodoroTimer state machine, the          *)
(* TaskManager store, the Statistics log and the PomodoroApp polling loop. *)
(*                                                                         *)
(* Time.  time.time() is modelled by the variable now, counted in ticks of *)
(* 1/TicksPerSecond second, so that elapsed times have a fractional part   *)
(* and int(elapsed) really truncates.  The clock is read at the instants   *)
(* of the set Instants (just before and at every multiple of the shortest  *)
(* session length), which makes every elapsed time D - 1 tick, D and       *)
(* D + 1 tick occur for every session duration D.                          *)
(*                                                                         *)
(* History variables record what happened and are read by no operation:   *)
(* signal (the value the last update() returned), ran (clock ticks spent   *)
(* Running in the current run), skipped (skip() was called while Running), *)
(* resumed (the run was paused for some time and resumed), issued (the ids *)
(* given out by add_task), shown (the rows of the task panel last          *)
(* rendered), blocked (the ticks the last key dispatch kept the loop in a  *)
(* dialog).  key is the local variable of run(): the key read in this      *)
(* tick, NoKey when there was none.                                        *)
(*                                                                         *)
(* The loop.  pc is the position of the program: "init" while the          *)
(* TaskManager constructor has still to load the task file, "start" before *)
(* run() sets up the terminal, "update", "input" and "sleep" inside a      *)
(* tick, "dialog" while a sub-dialog waits at console.input, "raised"      *)
(* while an exception leaves run(), "exited" after run()'s finally         *)
(* clauses.  terminal is the mode of the tty device (termios).             *)
(***************************************************************************)
EXTENDS Integers, Sequences, FiniteSets, TLC

VARIABLES
    \* PomodoroTimer
    state, session_type, remaining_seconds, total_seconds,
    pomodoros_completed, start_time, paused_time,
    \* TaskManager
    tasks, next_id, active_task_id,
    \* Statistics
    stats,
    \* PomodoroApp
    running, show_help, pc, key, terminal_settings, live_display,
    \* environment
    now, today, terminal,
    \* history
    signal, ran, skipped, resumed, issued, shown, blocked

timerVars == <<state, session_type, remaining_seconds, total_seconds,
               pomodoros_completed, start_time, paused_time>>
timerHist == <<signal, ran, skipped, resumed>>
storeVars == <<tasks, next_id, active_task_id, issued>>
appVars   == <<running, show_help, pc, key, shown, blocked>>
termVars  == <<terminal, terminal_settings, live_display>>
vars == <<timerVars, timerHist, storeVars, stats, appVars, termVars, now, today>>

----------------------------------------------------------------------------
\* Settings of the program (src/pomodoro.py:34-37)
WORK_MINUTES == 25
SHORT_BREAK_MINUTES == 5
LONG_BREAK_MINUTES == 15
POMODOROS_UNTIL_LONG_BREAK == 4

\* Enumerations
STOPPED == "stopped"
RUNNING == "running"
PAUSED == "paused"
WORK == "work"
SHORT_BREAK == "short_break"
LONG_BREAK == "long_break"
TimerState == {STOPPED, RUNNING, PAUSED}
SessionType == {WORK, SHORT_BREAK, LONG_BREAK}

\* Python's None for start_time / active_task_id (never a clock value or an id)
None == -1000000

----------------------------------------------------------------------------
\* Bounds of the model
TicksPerSecond == 2
MaxChunks == 5
MaxPomodoros == 5

\* One clock tick is 1/TicksPerSecond second.
Ticks(seconds) == seconds * TicksPerSecond

\* The instants at which the clock is read.
Chunk == Ticks(SHORT_BREAK_MINUTES * 60)
InstantsAt(chunks) == {k * Chunk - j : k \in chunks, j \in {0, 1}} \cap Nat
Instants == InstantsAt(0..MaxChunks)

\* int() taken for rounding up
int_ceil(ticks) == (ticks + TicksPerSecond - 1) \div TicksPerSecond

\* Python's int() on a float: truncation toward zero, here on a tick count.
int(ticks) == IF ticks >= 0 THEN ticks \div TicksPerSecond
              ELSE -((-ticks) \div TicksPerSecond)

max(a, b) == IF a >= b THEN a ELSE b

----------------------------------------------------------------------------
\* PomodoroTimer

TimerInit ==
    /\ state = STOPPED
    /\ session_type = WORK
    /\ remaining_seconds = WORK_MINUTES * 60
    /\ total_seconds = WORK_MINUTES * 60
    /\ pomodoros_completed = 0
    /\ start_time = None
    /\ paused_time = 0

start_work ==
    /\ session_type' = WORK
    /\ total_seconds' = WORK_MINUTES * 60
    /\ remaining_seconds' = total_seconds'
    /\ state' = STOPPED

\* start_break forgetting to stop the timer
start_break_running(break_type) ==
    /\ session_type' = break_type
    /\ total_seconds' = IF break_type = LONG_BREAK THEN LONG_BREAK_MINUTES * 60
                        ELSE SHORT_BREAK_MINUTES * 60
    /\ remaining_seconds' = total_seconds'
    /\ state' = state

start_break(break_type) ==
    /\ session_type' = break_type
    /\ total_seconds' = IF break_type = LONG_BREAK THEN LONG_BREAK_MINUTES * 60
                        ELSE SHORT_BREAK_MINUTES * 60
    /\ remaining_seconds' = total_seconds'
    /\ state' = STOPPED

\* complete_session testing the counter before incrementing it
complete_session_early ==
    IF session_type = WORK
    THEN /\ pomodoros_completed' = pomodoros_completed + 1
         /\ IF pomodoros_completed % POMODOROS_UNTIL_LONG_BREAK = 0
            THEN start_break(LONG_BREAK)
            ELSE start_break(SHORT_BREAK)
    ELSE /\ pomodoros_completed' = pomodoros_completed
         /\ start_work

complete_session ==
    IF session_type = WORK
    THEN /\ pomodoros_completed' = pomodoros_completed + 1
         /\ IF pomodoros_completed' % POMODOROS_UNTIL_LONG_BREAK = 0
            THEN start_break(LONG_BREAK)
            ELSE start_break(SHORT_BREAK)
    ELSE /\ pomodoros_completed' = pomodoros_completed
         /\ start_work

\* start restarting the clock of a Running timer
start_restarting ==
    /\ IF state = STOPPED
       THEN /\ start_time' = now
            /\ ran' = 0 /\ skipped' = FALSE /\ resumed' = FALSE
       ELSE IF state = PAUSED
       THEN /\ start_time' = start_time + (now - paused_time)
            /\ resumed' = (resumed \/ now > paused_time)
            /\ UNCHANGED <<ran, skipped>>
       ELSE /\ start_time' = now
            /\ UNCHANGED <<ran, skipped, resumed>>
    /\ state' = RUNNING
    /\ UNCHANGED <<session_type, remaining_seconds, total_seconds,
                   pomodoros_completed, paused_time>>

\* start resuming without shifting start_time
start_unshifted ==
    /\ IF state = STOPPED
       THEN /\ start_time' = now
            /\ ran' = 0 /\ skipped' = FALSE /\ resumed' = FALSE
       ELSE IF state = PAUSED
       THEN /\ start_time' = start_time
            /\ resumed' = (resumed \/ now > paused_time)
            /\ UNCHANGED <<ran, skipped>>
       ELSE UNCHANGED <<start_time, ran, skipped, resumed>>
    /\ state' = RUNNING
    /\ UNCHANGED <<session_type, remaining_seconds, total_seconds,
                   pomodoros_completed, paused_time>>

start ==
    /\ IF state = STOPPED
       THEN /\ start_time' = now
            /\ ran' = 0 /\ skipped' = FALSE /\ resumed' = FALSE
       ELSE IF state = PAUSED
       THEN /\ start_time' = start_time + (now - paused_time)
            /\ resumed' = (resumed \/ now > paused_time)
            /\ UNCHANGED <<ran, skipped>>
       ELSE UNCHANGED <<start_time, ran, skipped, resumed>>
    /\ state' = RUNNING
    /\ UNCHANGED <<session_type, remaining_seconds, total_seconds,
                   pomodoros_completed, paused_time>>

pause ==
    /\ IF state = RUNNING
       THEN state' = PAUSED /\ paused_time' = now
       ELSE UNCHANGED <<state, paused_time>>
    /\ UNCHANGED <<session_type, remaining_seconds, total_seconds,
                   pomodoros_completed, start_time>>
    /\ UNCHANGED <<ran, skipped, resumed>>

\* stop leaving the countdown where it was
stop_keeping ==
    /\ state' = STOPPED
    /\ UNCHANGED <<session_type, remaining_seconds, total_seconds,
                   pomodoros_completed, start_time, paused_time>>
    /\ ran' = 0 /\ skipped' = FALSE /\ UNCHANGED resumed

stop ==
    /\ state' = STOPPED
    /\ remaining_seconds' = total_seconds
    /\ UNCHANGED <<session_type, total_seconds, pomodoros_completed,
                   start_time, paused_time>>
    /\ ran' = 0 /\ skipped' = FALSE /\ UNCHANGED resumed

\* skip leaving every completion to the next update()
skip_deferring ==
    /\ start_time' = now - Ticks(total_seconds)
    /\ remaining_seconds' = 0
    /\ state' = RUNNING
    /\ UNCHANGED <<session_type, total_seconds, pomodoros_completed, paused_time>>
    /\ skipped' = TRUE /\ UNCHANGED <<ran, resumed>>

\* skip restarting the clock instead of back-dating it
skip_restart ==
    IF state = RUNNING
    THEN /\ start_time' = now
         /\ remaining_seconds' = 0
         /\ UNCHANGED <<state, session_type, total_seconds,
                        pomodoros_completed, paused_time>>
         /\ skipped' = TRUE /\ UNCHANGED <<ran, resumed>>
    ELSE /\ complete_session
         /\ UNCHANGED <<start_time, paused_time>>
         /\ ran' = 0 /\ skipped' = FALSE /\ UNCHANGED resumed

skip ==
    IF state = RUNNING
    THEN /\ start_time' = now - Ticks(total_seconds)
         /\ remaining_seconds' = 0
         /\ UNCHANGED <<state, session_type, total_seconds,
                        pomodoros_completed, paused_time>>
         /\ skipped' = TRUE /\ UNCHANGED <<ran, resumed>>
    ELSE /\ complete_session
         /\ UNCHANGED <<start_time, paused_time>>
         /\ ran' = 0 /\ skipped' = FALSE /\ UNCHANGED resumed

\* update without the clamp at 0
update_unclamped ==
    IF state # RUNNING
    THEN /\ signal' = FALSE
         /\ UNCHANGED timerVars
         /\ UNCHANGED <<ran, skipped, resumed>>
    ELSE LET elapsed == now - start_time
             remaining == total_seconds - int(elapsed)
         IN  IF remaining = 0
             THEN /\ complete_session
                  /\ signal' = TRUE
                  /\ UNCHANGED <<start_time, paused_time>>
                  /\ ran' = 0 /\ skipped' = FALSE /\ UNCHANGED resumed
             ELSE /\ remaining_seconds' = remaining
                  /\ signal' = FALSE
                  /\ UNCHANGED <<state, session_type, total_seconds,
                                 pomodoros_completed, start_time, paused_time>>
                  /\ UNCHANGED <<ran, skipped, resumed>>

\* update counting down while Paused too
update_while_paused ==
    IF state = STOPPED
    THEN /\ signal' = FALSE
         /\ UNCHANGED timerVars
         /\ UNCHANGED <<ran, skipped, resumed>>
    ELSE LET elapsed == now - start_time
             remaining == max(0, total_seconds - int(elapsed))
         IN  IF remaining = 0
             THEN /\ complete_session
                  /\ signal' = TRUE
                  /\ UNCHANGED <<start_time, paused_time>>
                  /\ ran' = 0 /\ skipped' = FALSE /\ UNCHANGED resumed
             ELSE /\ remaining_seconds' = remaining
                  /\ signal' = FALSE
                  /\ UNCHANGED <<state, session_type, total_seconds,
                                 pomodoros_completed, start_time, paused_time>>
                  /\ UNCHANGED <<ran, skipped, resumed>>

\* update counting its own calls instead of reading the clock
update_counting ==
    IF state # RUNNING
    THEN /\ signal' = FALSE
         /\ UNCHANGED timerVars
         /\ UNCHANGED <<ran, skipped, resumed>>
    ELSE LET remaining == max(0, remaining_seconds - 1)
         IN  IF remaining = 0
             THEN /\ complete_session
                  /\ signal' = TRUE
                  /\ UNCHANGED <<start_time, paused_time>>
                  /\ ran' = 0 /\ skipped' = FALSE /\ UNCHANGED resumed
             ELSE /\ remaining_seconds' = remaining
                  /\ signal' = FALSE
                  /\ UNCHANGED <<state, session_type, total_seconds,
                                 pomodoros_completed, start_time, paused_time>>
                  /\ UNCHANGED <<ran, skipped, resumed>>

\* update() and its return value (signal' is what the call returns)
update ==
    IF state # RUNNING
    THEN /\ signal' = FALSE
         /\ UNCHANGED timerVars
         /\ UNCHANGED <<ran, skipped, resumed>>
    ELSE LET elapsed == now - start_time
             remaining == max(0, total_seconds - int(elapsed))
         IN  IF remaining = 0
             THEN /\ complete_session
                  /\ signal' = TRUE
                  /\ UNCHANGED <<start_time, paused_time>>
                  /\ ran' = 0 /\ skipped' = FALSE /\ UNCHANGED resumed
             ELSE /\ remaining_seconds' = remaining
                  /\ signal' = FALSE
                  /\ UNCHANGED <<state, session_type, total_seconds,
                                 pomodoros_completed, start_time, paused_time>>
                  /\ UNCHANGED <<ran, skipped, resumed>>

\* get_progress, a float in the program, as the fraction <<p, q>> = p / q
get_progress ==
    IF total_seconds = 0 THEN <<1, 1>>
    ELSE <<total_seconds - remaining_seconds, total_seconds>>

\* The counter pomodoros_completed is unbounded in the program; the model
\* stops completing work sessions at MaxPomodoros.
CanCompleteTo(n) == session_type = WORK => pomodoros_completed < n
CanComplete == CanCompleteTo(MaxPomodoros)

\* The clock moves on to a later instant; running time accumulates in ran.
Advance ==
    /\ \E t \in Instants :
          /\ t > now
          /\ now' = t
          /\ ran' = IF state = RUNNING THEN ran + (t - now) ELSE ran
    /\ UNCHANGED <<timerVars, signal, skipped, resumed, storeVars, stats,
                   appVars, termVars, today>>

----------------------------------------------------------------------------
\* TaskManager.  A Task is a record (created_at, a timestamp no operation
\* reads, is left out).  Optional arguments are sequences: <<>> is None,
\* <<v>> is the value v.

Task(id, title, priority, estimated_pomodoros) ==
    [id |-> id, title |-> title, priority |-> priority,
     estimated_pomodoros |-> estimated_pomodoros,
     completed_pomodoros |-> 0, completed |-> FALSE]

HasTask(task_id) == \E i \in 1..Len(tasks) : tasks[i].id = task_id

\* get_task: the index of the first task with this id, 0 for None
get_task(task_id) ==
    IF HasTask(task_id)
    THEN CHOOSE i \in 1..Len(tasks) :
            /\ tasks[i].id = task_id
            /\ \A j \in 1..(i - 1) : tasks[j].id # task_id
    ELSE 0

\* get_active_task: index of the active task, 0 for None
\* (`if self.active_task_id:` is false for None and for 0)
get_active_task ==
    IF active_task_id # None /\ active_task_id # 0
    THEN get_task(active_task_id)
    ELSE 0

\* add_task numbering by the length of the list
add_task_by_length(title, priority, estimated_pomodoros) ==
    /\ tasks' = Append(tasks, Task(Len(tasks) + 1, title, priority,
                                   estimated_pomodoros))
    /\ next_id' = next_id + 1
    /\ issued' = issued \cup {Len(tasks) + 1}
    /\ UNCHANGED active_task_id

add_task(title, priority, estimated_pomodoros) ==
    /\ tasks' = Append(tasks, Task(next_id, title, priority, estimated_pomodoros))
    /\ next_id' = next_id + 1
    /\ issued' = issued \cup {next_id}
    /\ UNCHANGED active_task_id

set_active_task(task_id) ==
    /\ active_task_id' = task_id
    /\ UNCHANGED <<tasks, next_id, issued>>

complete_task(task_id) ==
    /\ LET i == get_task(task_id)
       IN  tasks' = IF i # 0 THEN [tasks EXCEPT ![i].completed = TRUE] ELSE tasks
    /\ UNCHANGED <<next_id, active_task_id, issued>>

\* delete_task keeping the active reference
delete_task_keep_active(task_id) ==
    /\ tasks' = SelectSeq(tasks, LAMBDA t : t.id # task_id)
    /\ UNCHANGED <<active_task_id, next_id, issued>>

delete_task(task_id) ==
    /\ tasks' = SelectSeq(tasks, LAMBDA t : t.id # task_id)
    /\ active_task_id' = IF active_task_id = task_id THEN None ELSE active_task_id
    /\ UNCHANGED <<next_id, issued>>

edit_task(task_id, title, priority, estimated) ==
    /\ LET i == get_task(task_id)
       IN  tasks' =
             IF i # 0
             THEN [tasks EXCEPT
                     ![i].title = IF title # <<>> THEN title[1] ELSE @,
                     ![i].priority = IF priority # <<>> THEN priority[1] ELSE @,
                     ![i].estimated_pomodoros =
                         IF estimated # <<>> THEN estimated[1] ELSE @]
             ELSE tasks
    /\ UNCHANGED <<next_id, active_task_id, issued>>

\* increment_task_pomodoro, as the new value of tasks
increment_task_pomodoro(task_id) ==
    LET i == get_task(task_id)
    IN  IF i # 0
        THEN [tasks EXCEPT ![i].completed_pomodoros = @ + 1]
        ELSE tasks

\* load_tasks.  file is what TASKS_FILE holds: kind "missing" (no file),
\* "malformed" (json.load raises, or the JSON value is not an object) or
\* "object"; an object has the optional keys next_id and active_task_id
\* (<<>> when absent) and the list tasks of task_data, each with the Task it
\* describes and ok: whether its keys are Task's fields, so that
\* Task(**task_data) constructs it (it raises TypeError otherwise).
load_tasks(file) ==
    /\ IF file.kind # "object"
       THEN UNCHANGED <<tasks, next_id, active_task_id>>
       ELSE /\ next_id' = IF file.next_id # <<>> THEN file.next_id[1] ELSE 1
            /\ active_task_id' = IF file.active_task_id # <<>>
                                 THEN file.active_task_id[1] ELSE None
            /\ tasks' = IF \A i \in 1..Len(file.tasks) : file.tasks[i].ok
                        THEN [i \in 1..Len(file.tasks) |-> file.tasks[i].task]
                        ELSE tasks
    /\ UNCHANGED issued

\* priority_order with Low ahead of Medium
priority_order_swapped(priority) ==
    CASE priority = "High" -> 0
      [] priority = "Medium" -> 2
      [] priority = "Low" -> 1
      [] OTHER -> 3

priority_order(priority) ==
    CASE priority = "High" -> 0
      [] priority = "Medium" -> 1
      [] priority = "Low" -> 2
      [] OTHER -> 3

\* list.sort(key=...) is a stable sort: insertion sort, a task going after
\* every task already placed whose key is not larger.
RECURSIVE InsertByPriority(_, _)
InsertByPriority(sorted, t) ==
    IF sorted = <<>> THEN <<t>>
    ELSE IF priority_order(sorted[Len(sorted)].priority) <= priority_order(t.priority)
    THEN Append(sorted, t)
    ELSE Append(InsertByPriority(SubSeq(sorted, 1, Len(sorted) - 1), t),
                sorted[Len(sorted)])

RECURSIVE SortByPriority(_)
SortByPriority(ts) ==
    IF ts = <<>> THEN <<>>
    ELSE InsertByPriority(SortByPriority(SubSeq(ts, 1, Len(ts) - 1)), ts[Len(ts)])

get_incomplete_tasks(sort_by_priority) ==
    LET ts == SelectSeq(tasks, LAMBDA t : ~t.completed)
    IN  IF sort_by_priority THEN SortByPriority(ts) ELSE ts

----------------------------------------------------------------------------
\* Statistics: date -> [total_pomodoros, tasks: title -> count]

NoStats == [d \in {} |-> 0]

\* record_pomodoro counting the title only when the title is new today
record_pomodoro_once(task_title) ==
    LET s0 == IF today \in DOMAIN stats THEN stats
              ELSE [d \in DOMAIN stats \cup {today} |->
                      IF d = today
                      THEN [total_pomodoros |-> 0, tasks |-> NoStats]
                      ELSE stats[d]]
        t0 == s0[today].tasks
        t1 == IF task_title \in DOMAIN t0 THEN t0
              ELSE [x \in DOMAIN t0 \cup {task_title} |->
                      IF x = task_title THEN 1 ELSE t0[x]]
    IN  [s0 EXCEPT ![today] =
            [total_pomodoros |-> s0[today].total_pomodoros + 1,
             tasks |-> t1]]

\* record_pomodoro starting a fresh log with today's entry
record_pomodoro_fresh(task_title) ==
    LET t0 == IF today \in DOMAIN stats THEN stats[today].tasks ELSE NoStats
        n0 == IF today \in DOMAIN stats THEN stats[today].total_pomodoros ELSE 0
        c0 == IF task_title \in DOMAIN t0 THEN t0[task_title] ELSE 0
    IN  [d \in {today} |->
            [total_pomodoros |-> n0 + 1,
             tasks |-> [x \in DOMAIN t0 \cup {task_title} |->
                          IF x = task_title THEN c0 + 1 ELSE t0[x]]]]

\* record_pomodoro, as the new value of stats (today is date.today())
record_pomodoro(task_title) ==
    LET s0 == IF today \in DOMAIN stats THEN stats
              ELSE [d \in DOMAIN stats \cup {today} |->
                      IF d = today
                      THEN [total_pomodoros |-> 0, tasks |-> NoStats]
                      ELSE stats[d]]
        t0 == s0[today].tasks
        t1 == IF task_title \in DOMAIN t0 THEN t0
              ELSE [x \in DOMAIN t0 \cup {task_title} |->
                      IF x = task_title THEN 0 ELSE t0[x]]
    IN  [s0 EXCEPT ![today] =
            [total_pomodoros |-> s0[today].total_pomodoros + 1,
             tasks |-> [t1 EXCEPT ![task_title] = @ + 1]]]

get_today_stats ==
    IF today \in DOMAIN stats THEN stats[today]
    ELSE [total_pomodoros |-> 0, tasks |-> NoStats]

----------------------------------------------------------------------------
\* PomodoroApp

\* What the user types.  A text typed at a prompt is one of a few strings;
\* int(text) succeeds on the numerals and raises ValueError on the rest.
Numeral(n) ==
    CASE n = 0 -> "0" [] n = 1 -> "1" [] n = 2 -> "2" [] n = 3 -> "3"
      [] n = 4 -> "4" [] n = 5 -> "5" [] n = 6 -> "6" [] n = 7 -> "7"
      [] n = 8 -> "8" [] n = 9 -> "9"
IsInt(text) == \E n \in 0..9 : Numeral(n) = text
ToInt(text) == CHOOSE n \in 0..9 : Numeral(n) = text

\* priority_map.get(text, default)
priority_map(text, default) ==
    CASE text = "1" -> <<"High">>
      [] text = "2" -> <<"Medium">>
      [] text = "3" -> <<"Low">>
      [] OTHER -> default

min(a, b) == IF a <= b THEN a ELSE b
Ids(ts) == [i \in 1..Len(ts) |-> ts[i].id]

\* render_tasks: the rows of the task panel, as task ids (first 10 tasks)
render_tasks ==
    LET ts == get_incomplete_tasks(TRUE)
    IN  SubSeq(Ids(ts), 1, min(10, Len(ts)))

\* The terminal: the modes of the tty and the states of the Live display.
COOKED == "cooked"
CBREAK == "cbreak"
NotSet == "None"
STARTED == "started"
HALTED == "stopped"

pause_live_display ==
    /\ live_display' = IF live_display # NotSet THEN HALTED ELSE live_display
    /\ terminal' = IF terminal_settings # NotSet THEN terminal_settings
                   ELSE terminal
    /\ UNCHANGED terminal_settings

\* resume_live_display restarting the display only
resume_display_only ==
    /\ live_display' = IF live_display # NotSet THEN STARTED ELSE live_display
    /\ UNCHANGED <<terminal, terminal_settings>>

resume_live_display ==
    /\ terminal' = CBREAK
    /\ live_display' = IF live_display # NotSet THEN STARTED ELSE live_display
    /\ UNCHANGED terminal_settings

\* A dialog keeps the loop waiting at console.input / time.sleep(1) until
\* instant t.
Blocked(t) ==
    /\ t >= now
    /\ now' = t
    /\ blocked' = t - now
    /\ ran' = IF state = RUNNING THEN ran + (t - now) ELSE ran

NotBlocked == blocked' = 0 /\ UNCHANGED <<now, ran>>

\* on_session_complete; session is timer.session_type when the handler runs
on_session_complete(session) ==
    /\ IF session = WORK
       THEN LET active_task == get_active_task
            IN  IF active_task # 0
                THEN /\ tasks' = increment_task_pomodoro(tasks[active_task].id)
                     /\ stats' = record_pomodoro(tasks[active_task].title)
                ELSE /\ stats' = record_pomodoro("No task")
                     /\ UNCHANGED tasks
       ELSE UNCHANGED <<tasks, stats>>
    /\ UNCHANGED <<next_id, active_task_id, issued>>

\* The dialogs, from their first console.input to the end of their try
\* block (pause_live_display is in OpenDialog, the finally clause in
\* LoopDialog).  in: the sets the typed texts are drawn from.
add_task_interactive(in) ==
    \E title \in in.titles, priority_input \in in.choices,
       estimated_input \in in.estimates, t \in in.instants :
       /\ Blocked(t)
       /\ IF title = ""
          THEN UNCHANGED storeVars
          ELSE LET priority == priority_map(priority_input, <<"Medium">>)[1]
                   estimated == IF estimated_input # "" /\ IsInt(estimated_input)
                                THEN ToInt(estimated_input) ELSE 1
               IN  /\ next_id <= in.max_id
                   /\ add_task(title, priority, estimated)
       /\ pc' = "sleep"

\* edit_task_interactive; int(estimated_input) is outside any try/except:
\* its ValueError leaves the dialog (through the finally) and handle_input.
edit_task_interactive(in) ==
    \E task_id_input \in in.numbers, new_title \in in.titles,
       priority_input \in in.choices, estimated_input \in in.estimates,
       t \in in.instants :
       /\ Blocked(t)
       /\ IF ~IsInt(task_id_input) \/ get_task(ToInt(task_id_input)) = 0
          THEN UNCHANGED storeVars /\ pc' = "sleep"
          ELSE IF estimated_input # "" /\ ~IsInt(estimated_input)
          THEN UNCHANGED storeVars /\ pc' = "raised"
          ELSE /\ edit_task(ToInt(task_id_input),
                            IF new_title # "" THEN <<new_title>> ELSE <<>>,
                            IF priority_input # ""
                            THEN priority_map(priority_input, <<>>) ELSE <<>>,
                            IF estimated_input # ""
                            THEN <<ToInt(estimated_input)>> ELSE <<>>)
               /\ pc' = "sleep"

complete_task_interactive(in) ==
    \E task_id_input \in in.numbers, t \in in.instants :
       /\ Blocked(t)
       /\ IF ~IsInt(task_id_input)
          THEN UNCHANGED storeVars
          ELSE complete_task(ToInt(task_id_input))
       /\ pc' = "sleep"

delete_task_interactive(in) ==
    \E task_id_input \in in.numbers, t \in in.instants :
       /\ Blocked(t)
       /\ IF ~IsInt(task_id_input)
          THEN UNCHANGED storeVars
          ELSE delete_task(ToInt(task_id_input))
       /\ pc' = "sleep"

\* A dialog key: pause_live_display, then the dialog waits for input
OpenDialog ==
    /\ pause_live_display
    /\ pc' = "dialog"
    /\ NotBlocked
    /\ UNCHANGED <<running, show_help, timerVars, skipped, resumed, storeVars>>

\* handle_input testing the quit key before the help screen
handle_input_quit_first(k, in) ==
    IF k = "q"
    THEN /\ running' = FALSE
         /\ pc' = "sleep"
         /\ NotBlocked
         /\ UNCHANGED <<show_help, timerVars, skipped, resumed, storeVars, termVars>>
    ELSE IF show_help
    THEN /\ show_help' = FALSE
         /\ pc' = "sleep"
         /\ NotBlocked
         /\ UNCHANGED <<running, timerVars, skipped, resumed, storeVars, termVars>>
    ELSE IF k = "?"
    THEN /\ show_help' = TRUE
         /\ pc' = "sleep"
         /\ NotBlocked
         /\ UNCHANGED <<running, timerVars, skipped, resumed, storeVars, termVars>>
    ELSE IF k = "s"
    THEN /\ IF state = RUNNING THEN pause ELSE start
         /\ pc' = "sleep"
         /\ blocked' = 0 /\ UNCHANGED now
         /\ UNCHANGED <<running, show_help, storeVars, termVars>>
    ELSE IF k = "k"
    THEN /\ CanCompleteTo(in.max_pomodoros)
         /\ skip
         /\ pc' = "sleep"
         /\ blocked' = 0 /\ UNCHANGED now
         /\ UNCHANGED <<running, show_help, storeVars, termVars>>
    ELSE IF k \in {"a", "e", "c", "d"}
    THEN OpenDialog
    ELSE IF IsInt(k) /\ ToInt(k) >= 1
    THEN /\ LET ts == get_incomplete_tasks(TRUE)
                idx == ToInt(k) - 1
            IN  IF idx < Len(ts)
                THEN set_active_task(ts[idx + 1].id)
                ELSE UNCHANGED storeVars
         /\ pc' = "sleep"
         /\ NotBlocked
         /\ UNCHANGED <<running, show_help, timerVars, skipped, resumed, termVars>>
    ELSE /\ pc' = "sleep"
         /\ NotBlocked
         /\ UNCHANGED <<running, show_help, timerVars, skipped, resumed, storeVars,
                        termVars>>

\* handle_input(key); the timer's return value signal is not touched
handle_input(k, in) ==
    IF show_help
    THEN /\ show_help' = FALSE
         /\ pc' = "sleep"
         /\ NotBlocked
         /\ UNCHANGED <<running, timerVars, skipped, resumed, storeVars, termVars>>
    ELSE IF k = "q"
    THEN /\ running' = FALSE
         /\ pc' = "sleep"
         /\ NotBlocked
         /\ UNCHANGED <<show_help, timerVars, skipped, resumed, storeVars, termVars>>
    ELSE IF k = "?"
    THEN /\ show_help' = TRUE
         /\ pc' = "sleep"
         /\ NotBlocked
         /\ UNCHANGED <<running, timerVars, skipped, resumed, storeVars, termVars>>
    ELSE IF k = "s"
    THEN /\ IF state = RUNNING THEN pause ELSE start
         /\ pc' = "sleep"
         /\ blocked' = 0 /\ UNCHANGED now
         /\ UNCHANGED <<running, show_help, storeVars, termVars>>
    ELSE IF k = "k"
    THEN /\ CanCompleteTo(in.max_pomodoros)
         /\ skip
         /\ pc' = "sleep"
         /\ blocked' = 0 /\ UNCHANGED now
         /\ UNCHANGED <<running, show_help, storeVars, termVars>>
    ELSE IF k \in {"a", "e", "c", "d"}
    THEN OpenDialog
    ELSE IF IsInt(k) /\ ToInt(k) >= 1
    THEN /\ LET ts == get_incomplete_tasks(TRUE)
                idx == ToInt(k) - 1
            IN  IF idx < Len(ts)
                THEN set_active_task(ts[idx + 1].id)
                ELSE UNCHANGED storeVars
         /\ pc' = "sleep"
         /\ NotBlocked
         /\ UNCHANGED <<running, show_help, timerVars, skipped, resumed, termVars>>
    ELSE /\ pc' = "sleep"
         /\ NotBlocked
         /\ UNCHANGED <<running, show_help, timerVars, skipped, resumed, storeVars,
                        termVars>>

NoKey == "none"

\* run(): the terminal's settings are saved, the tty is put in cbreak mode
\* and the Live display is started
LoopStart ==
    /\ pc = "start"
    /\ terminal_settings' = terminal
    /\ terminal' = CBREAK
    /\ live_display' = STARTED
    /\ pc' = "update"
    /\ UNCHANGED <<timerVars, timerHist, storeVars, stats, running, show_help,
                   key, shown, blocked, now, today>>

\* run() left without its outer finally clause
LeaveRunAsIs ==
    /\ live_display' = HALTED
    /\ pc' = "exited"
    /\ UNCHANGED <<timerVars, timerHist, storeVars, stats, running, show_help,
                   key, shown, blocked, now, today, terminal, terminal_settings>>

\* run()'s finally clauses: live_display.stop(), then tcsetattr with the
\* saved settings
LeaveRun ==
    /\ live_display' = HALTED
    /\ terminal' = terminal_settings
    /\ pc' = "exited"
    /\ UNCHANGED <<timerVars, timerHist, storeVars, stats, running, show_help,
                   key, shown, blocked, now, today, terminal_settings>>

\* run(), top of the loop: `while self.running` is false, the loop ends
LoopExit ==
    /\ pc = "update" /\ ~running
    /\ LeaveRun

\* run(): an exception raised in the tick leaves the loop
LoopRaise ==
    /\ pc = "raised"
    /\ LeaveRun

\* run(): if self.timer.update(): self.on_session_complete()
LoopUpdate(in) ==
    /\ pc = "update" /\ running
    /\ CanCompleteTo(in.max_pomodoros)
    /\ update
    /\ IF signal'
       THEN on_session_complete(session_type')
       ELSE UNCHANGED <<storeVars, stats>>
    /\ pc' = "input"
    /\ UNCHANGED <<running, show_help, key, shown, blocked, now, today, termVars>>

\* One key read by get_input_nonblocking and dispatched
PressKey(k, in) ==
    /\ pc = "input"
    /\ key' = k
    /\ handle_input(k, in)
    /\ UNCHANGED <<signal, stats, shown, today>>

\* run(): key = self.get_input_nonblocking(); if key: self.handle_input(key)
LoopInput(in) ==
    \E k \in in.keys \cup {NoKey} :
       IF k = NoKey
       THEN /\ pc = "input"
            /\ key' = NoKey
            /\ pc' = "sleep"
            /\ NotBlocked
            /\ UNCHANGED <<running, show_help, timerVars, skipped, resumed,
                           storeVars, termVars>>
            /\ UNCHANGED <<signal, stats, shown, today>>
       ELSE PressKey(k, in)

\* The open dialog reads its inputs and ends; its finally clause is
\* resume_live_display
LoopDialog(in) ==
    /\ pc = "dialog"
    /\ CASE key = "a" -> add_task_interactive(in)
         [] key = "e" -> edit_task_interactive(in)
         [] key = "c" -> complete_task_interactive(in)
         [] key = "d" -> delete_task_interactive(in)
    /\ resume_live_display
    /\ UNCHANGED <<running, show_help, key, timerVars, skipped, resumed>>
    /\ UNCHANGED <<signal, stats, shown, today>>

\* run(): self.live_display.update(self.render()); time.sleep(0.1)
\* (the sleep is shorter than a clock tick: the next reading of the clock
\* may be the same instant)
LoopSleep(in) ==
    /\ pc = "sleep"
    /\ shown' = IF show_help THEN shown ELSE render_tasks
    /\ \E t \in in.instants :
          /\ t >= now
          /\ now' = t
          /\ ran' = IF state = RUNNING THEN ran + (t - now) ELSE ran
    /\ pc' = "update"
    /\ key' = NoKey
    /\ UNCHANGED <<timerVars, signal, skipped, resumed, storeVars, stats,
                   running, show_help, blocked, today, termVars>>

----------------------------------------------------------------------------
\* The timer on its own: any sequence of its operations, any clock.

notTimer == <<storeVars, stats, appVars, termVars, now, today>>

TimerStart == start /\ UNCHANGED <<signal, notTimer>>
TimerPause == pause /\ UNCHANGED <<signal, notTimer>>
TimerStop == stop /\ UNCHANGED <<signal, notTimer>>
TimerSkip == CanComplete /\ skip /\ UNCHANGED <<signal, notTimer>>
TimerUpdate == CanComplete /\ update /\ UNCHANGED notTimer

\* The fields as the constructors set them, run() at the given position
InitAt(position) ==
    /\ TimerInit
    /\ tasks = <<>> /\ next_id = 1 /\ active_task_id = None
    /\ stats = <<>>
    /\ running = TRUE /\ show_help = FALSE /\ pc = position /\ key = NoKey
    /\ terminal_settings = NotSet /\ live_display = NotSet
    /\ now = 0 /\ today = 0 /\ terminal = COOKED
    /\ signal = FALSE /\ ran = 0 /\ skipped = FALSE /\ resumed = FALSE
    /\ issued = {} /\ shown = <<>> /\ blocked = 0

\* After construction with no task file and no statistics file
Init == InitAt("start")

NextTimer ==
    \/ TimerStart
    \/ TimerPause
    \/ TimerStop
    \/ TimerSkip
    \/ TimerUpdate
    \/ Advance

SpecTimer == Init /\ [][NextTimer]_vars

----------------------------------------------------------------------------
\* The application loop with the timer keys and one task.  The clock is
\* read around the instants at which a session started at 0 can end.

MaxAppTasks == 1
MaxAppPomodoros == 2

AppChunks ==
    LET short == SHORT_BREAK_MINUTES * 60
        work == WORK_MINUTES * 60
    IN  {0, 1, work \div short, work \div short + 1}

AppInputs ==
    [keys |-> {"s", "k", "a", "1", "?", "q"},
     titles |-> {"", "A"}, choices |-> {"1"}, numbers |-> {"x", "1"},
     estimates |-> {"", "x"},
     max_id |-> MaxAppTasks, max_pomodoros |-> MaxAppPomodoros,
     instants |-> InstantsAt(AppChunks)]

AppUpdate == LoopUpdate(AppInputs)
AppInput == LoopInput(AppInputs)
AppDialog == LoopDialog(AppInputs)
AppSleep == LoopSleep(AppInputs)

NextApp ==
    \/ LoopStart
    \/ LoopExit
    \/ AppUpdate
    \/ AppInput
    \/ AppDialog
    \/ AppSleep

SpecApp == Init /\ [][NextApp]_vars

----------------------------------------------------------------------------
\* The task store on its own: any sequence of TaskManager's operations,
\* with ids in and out of the store.

MaxId == 3
MaxCount == 1

notStore == <<timerVars, timerHist, stats, appVars, termVars, now, today>>

StoreAdd ==
    /\ next_id <= MaxId
    /\ add_task("A", "Medium", 1)
    /\ UNCHANGED notStore

StoreSetActive ==
    /\ \E task_id \in (0..(MaxId + 1)) \cup {None} : set_active_task(task_id)
    /\ UNCHANGED notStore

StoreComplete ==
    /\ \E task_id \in 1..(MaxId + 1) : complete_task(task_id)
    /\ UNCHANGED notStore

StoreDelete ==
    /\ \E task_id \in 1..(MaxId + 1) : delete_task(task_id)
    /\ UNCHANGED notStore

StoreEdit ==
    /\ \E task_id \in 1..(MaxId + 1) : edit_task(task_id, <<"B">>, <<>>, <<>>)
    /\ UNCHANGED notStore

StoreIncrement ==
    /\ \E task_id \in 1..(MaxId + 1) :
          /\ \A i \in 1..Len(tasks) :
                tasks[i].id = task_id => tasks[i].completed_pomodoros < MaxCount
          /\ tasks' = increment_task_pomodoro(task_id)
    /\ UNCHANGED <<next_id, active_task_id, issued>>
    /\ UNCHANGED notStore

NextStore ==
    \/ StoreAdd
    \/ StoreSetActive
    \/ StoreComplete
    \/ StoreDelete
    \/ StoreEdit
    \/ StoreIncrement

SpecStore == Init /\ [][NextStore]_vars

----------------------------------------------------------------------------
\* The application loop with the task keys: the timer is never started.

MaxShownTasks == 3

TaskInputs ==
    [keys |-> {"a", "e", "c", "d", "?"} \cup {Numeral(n) : n \in 1..(MaxShownTasks + 1)},
     titles |-> {"", "A"}, choices |-> {"", "1", "3"},
     numbers |-> {"x"} \cup {Numeral(n) : n \in 1..MaxShownTasks},
     estimates |-> {""},
     max_id |-> MaxShownTasks, max_pomodoros |-> MaxAppPomodoros,
     instants |-> {0, Chunk}]

TasksUpdate == LoopUpdate(TaskInputs)
TasksInput == LoopInput(TaskInputs)
TasksDialog == LoopDialog(TaskInputs)
TasksSleep == LoopSleep(TaskInputs)

NextTasks ==
    \/ LoopStart
    \/ TasksUpdate
    \/ TasksInput
    \/ TasksDialog
    \/ TasksSleep

SpecTasks == Init /\ [][NextTasks]_vars

----------------------------------------------------------------------------
\* The application loop with the dialog keys, valid and invalid texts typed
\* in every field, help and quit.

MaxDialogTasks == 2

DialogInputs ==
    [keys |-> {"a", "e", "c", "d", "?", "q"},
     titles |-> {"", "A"}, choices |-> {"", "1", "9"},
     numbers |-> {"x"} \cup {Numeral(n) : n \in 1..MaxDialogTasks},
     estimates |-> {"", "x", "2"},
     max_id |-> MaxDialogTasks, max_pomodoros |-> MaxAppPomodoros,
     instants |-> {0, Chunk}]

DialogsUpdate == LoopUpdate(DialogInputs)
DialogsInput == LoopInput(DialogInputs)
DialogsDialog == LoopDialog(DialogInputs)
DialogsSleep == LoopSleep(DialogInputs)

NextDialogs ==
    \/ LoopStart
    \/ LoopExit
    \/ LoopRaise
    \/ DialogsUpdate
    \/ DialogsInput
    \/ DialogsDialog
    \/ DialogsSleep

SpecDialogs == Init /\ [][NextDialogs]_vars

----------------------------------------------------------------------------
\* TaskManager's constructor: the fields have their defaults and the task
\* file, whatever it holds, is loaded.

MaxFileId == 2
MaxFileTasks == 2

FileIds == 1..MaxFileId
TaskData ==
    {[task |-> [Task(id, "A", "Medium", 1) EXCEPT !.completed = c], ok |-> ok] :
        id \in FileIds, c \in BOOLEAN, ok \in BOOLEAN}
TaskLists == UNION {[1..n -> TaskData] : n \in 0..MaxFileTasks}
Optional(S) == {<<>>} \cup {<<x>> : x \in S}
TaskFiles ==
    {[kind |-> "missing"], [kind |-> "malformed"]} \cup
    {[kind |-> "object", next_id |-> n, active_task_id |-> a, tasks |-> ts] :
        n \in Optional(1..(MaxFileId + 1)), a \in Optional(FileIds),
        ts \in TaskLists}

InitLoad == InitAt("init")

LoadTasks ==
    /\ pc = "init"
    /\ \E file \in TaskFiles : load_tasks(file)
    /\ pc' = "start"
    /\ UNCHANGED <<timerVars, timerHist, stats, running, show_help, key, shown,
                   blocked, termVars, now, today>>

NextLoad == LoadTasks

SpecLoad == InitLoad /\ [][NextLoad]_vars

----------------------------------------------------------------------------
\* The statistics log on its own: pomodoros recorded under two titles while
\* the date advances.

MaxDay == 2
MaxRecords == 3

StatTitles == {"Write report", "No task"}

notStats == <<timerVars, timerHist, storeVars, appVars, termVars, now>>

StatsRecord ==
    /\ get_today_stats.total_pomodoros < MaxRecords
    /\ \E task_title \in StatTitles : stats' = record_pomodoro(task_title)
    /\ UNCHANGED <<today, notStats>>

\* date.today() returns the next date
NextDay ==
    /\ today < MaxDay
    /\ today' = today + 1
    /\ UNCHANGED <<stats, notStats>>

NextStats ==
    \/ StatsRecord
    \/ NextDay

SpecStats == Init /\ [][NextStats]_vars

----------------------------------------------------------------------------
\* Properties

\* What a completion transition does to the timer, read off the cycle rule.
BreakAfter(n) == IF n % 4 = 0 THEN LONG_BREAK ELSE SHORT_BREAK
DurationOf(session) ==
    CASE session = WORK -> 1500
      [] session = SHORT_BREAK -> 300
      [] session = LONG_BREAK -> 900
CompletionTransition ==
    /\ session_type' = IF session_type = WORK
                       THEN BreakAfter(pomodoros_completed + 1) ELSE WORK
    /\ pomodoros_completed' =
          pomodoros_completed + (IF session_type = WORK THEN 1 ELSE 0)
    /\ total_seconds' = DurationOf(session_type')
    /\ remaining_seconds' = total_seconds'
    /\ state' = STOPPED

\* Counters of the Statistics Log, 0 where there is no entry.
TotalOn(s, d) == IF d \in DOMAIN s THEN s[d].total_pomodoros ELSE 0
CountOn(s, d, title) ==
    IF d \in DOMAIN s /\ title \in DOMAIN s[d].tasks THEN s[d].tasks[title] ELSE 0
RecordedOne(title) ==
    /\ TotalOn(stats', today) = TotalOn(stats, today) + 1
    /\ CountOn(stats', today, title) = CountOn(stats, today, title) + 1

\* C1: when update() signals a completion in the loop, the handler records
\* a pomodoro exactly when the session that just completed (session_type
\* before the step) was Work: the active task, if any, gets
\* completed_pomodoros + 1 and one pomodoro is recorded today under its
\* title, or under "No task"; after a break nothing changes.
C1_RecordsWorkCompletions ==
    [][(AppUpdate /\ signal') =>
         IF session_type = WORK
         THEN LET a == get_active_task
              IN  IF a # 0
                  THEN /\ tasks' = [tasks EXCEPT ![a].completed_pomodoros = @ + 1]
                       /\ RecordedOne(tasks[a].title)
                  ELSE /\ tasks' = tasks
                       /\ RecordedOne("No task")
         ELSE tasks' = tasks /\ stats' = stats]_vars

\* C2: a completed Work session is followed by a break and a completed
\* break by Work; the break after the n-th completed Work session is
\* LongBreak when n mod 4 = 0 and ShortBreak otherwise; the new session's
\* total_seconds is Work 1500, ShortBreak 300, LongBreak 900.  Every
\* completion (an update() that signals, a skip() while not Running) changes
\* the session, and nothing else does.
C2_SessionCycle ==
    [][/\ ((TimerUpdate /\ signal') \/ (TimerSkip /\ state # RUNNING))
             => session_type' # session_type
       /\ session_type' # session_type =>
             /\ (TimerUpdate /\ signal') \/ (TimerSkip /\ state # RUNNING)
             /\ session_type = WORK =>
                   /\ pomodoros_completed' = pomodoros_completed + 1
                   /\ session_type' = BreakAfter(pomodoros_completed')
             /\ session_type # WORK =>
                   /\ pomodoros_completed' = pomodoros_completed
                   /\ session_type' = WORK
             /\ total_seconds' = DurationOf(session_type')]_vars

\* Five work sessions completed: the break after the fourth was long, the
\* one after the fifth is short.
C2_Witness ==
    /\ pomodoros_completed = 5
    /\ session_type = SHORT_BREAK
    /\ total_seconds = 300

\* C3: an update() of a Running session that has run E < D (ran ticks,
\* pauses excluded, no skip) sets remaining_seconds = D - floor(E), returns
\* no signal and leaves session_type and state alone; it completes the
\* session only when E >= D.
C3_RemainingIsDurationMinusFloor ==
    [][(TimerUpdate /\ state = RUNNING /\ ~skipped) =>
         IF ran < Ticks(total_seconds)
         THEN /\ remaining_seconds' = total_seconds - (ran \div TicksPerSecond)
              /\ ~signal'
              /\ session_type' = session_type
              /\ state' = RUNNING
         ELSE signal' /\ session_type' # session_type]_vars

\* An update() has seen a running time with a fractional part.
C3_Witness ==
    /\ state = RUNNING /\ ~skipped
    /\ ran % TicksPerSecond # 0
    /\ remaining_seconds < total_seconds
    /\ remaining_seconds = total_seconds - (ran \div TicksPerSecond)

\* C4: whatever the pause lengths and the number of pause()/start() cycles,
\* the elapsed time the timer computes (now - start_time while Running,
\* paused_time - start_time while Paused) is the time spent Running, so an
\* update() completes the session exactly when the running time has
\* reached total_seconds.
C4_PausePreservesElapsed ==
    [][/\ (state' = RUNNING /\ ~skipped') => now' - start_time' = ran'
       /\ (state' = PAUSED /\ ~skipped') => paused_time' - start_time' = ran'
       /\ (TimerStart /\ state = PAUSED) =>
             now' - start_time' = paused_time - start_time
       /\ (TimerUpdate /\ state = RUNNING /\ ~skipped) =>
             (signal' <=> ran >= Ticks(total_seconds))]_vars

\* A run that was paused for some time, resumed, and has now run for the
\* whole session.
C4_Witness ==
    /\ state = RUNNING /\ resumed /\ ~skipped
    /\ ran = Ticks(total_seconds)
    /\ now - start_time = ran
    /\ start_time > 0

\* C5: update() signals once per completed session: a signalling update()
\* leaves the timer Stopped, an update() of a timer that is not Running
\* returns no signal and changes nothing, and only start() makes the timer
\* Running again.
C5_SignalOnce ==
    [][/\ (TimerUpdate /\ signal') => (state = RUNNING /\ state' = STOPPED)
       /\ (TimerUpdate /\ state # RUNNING) =>
             (~signal' /\ UNCHANGED timerVars)
       /\ (state # RUNNING /\ state' = RUNNING) => TimerStart]_vars

\* update() has just signalled a completion.
C5_Witness == signal /\ state = STOPPED /\ remaining_seconds = total_seconds

C7_BlockedTimeIsCounted ==
    [][/\ (AppUpdate /\ blocked > 0 /\ state = RUNNING) =>
             IF ran < Ticks(total_seconds)
             THEN /\ ~signal'
                  /\ remaining_seconds' = total_seconds - (ran \div TicksPerSecond)
                  /\ UNCHANGED <<state, session_type, total_seconds,
                                 pomodoros_completed>>
             ELSE signal' /\ CompletionTransition
       /\ (AppUpdate /\ state # RUNNING) => (~signal' /\ UNCHANGED timerVars)]_vars

\* A dialog kept the loop for a whole Work session; the update() after it
\* has completed that session.
C7_Witness ==
    /\ pc = "input" /\ signal
    /\ blocked >= Ticks(1500)
    /\ session_type = SHORT_BREAK /\ pomodoros_completed = 1
    /\ state = STOPPED /\ remaining_seconds = 300

\* The order the claim names: High < Medium < Low, ties in insertion order.
PriorityRank(priority) ==
    CASE priority = "High" -> 1 [] priority = "Medium" -> 2 [] priority = "Low" -> 3
Position(task_id) == CHOOSE i \in 1..Len(tasks) : tasks[i].id = task_id
IsPriorityOrdered(list) ==
    /\ Len(list) = Cardinality({i \in 1..Len(tasks) : ~tasks[i].completed})
    /\ \A i \in 1..Len(tasks) :
          ~tasks[i].completed => \E k \in 1..Len(list) : list[k] = tasks[i]
    /\ \A j, k \in 1..Len(list) :
          j < k =>
             \/ PriorityRank(list[j].priority) < PriorityRank(list[k].priority)
             \/ /\ PriorityRank(list[j].priority) = PriorityRank(list[k].priority)
                /\ Position(list[j].id) < Position(list[k].id)

\* C8: numeric key N sets as active the N-th task of the incomplete tasks
\* in priority order (High < Medium < Low, ties in insertion order), the
\* list the task panel last rendered; when N exceeds the number of
\* incomplete tasks the active reference is unchanged.
C8_DigitSelectsNthShown ==
    [][\A n \in 1..9 :
          (pc = "input" /\ ~show_help /\ key' = Numeral(n)) =>
             LET list == get_incomplete_tasks(TRUE)
             IN  /\ IsPriorityOrdered(list)
                 /\ shown = [k \in 1..Len(list) |-> list[k].id]
                 /\ active_task_id' = IF n <= Len(list) THEN list[n].id
                                      ELSE active_task_id
                 /\ tasks' = tasks]_vars

\* Key 3 has been pressed on the panel [High, High, Medium] whose Medium
\* task was added first.
C8_Witness ==
    /\ pc = "sleep" /\ key = "3"
    /\ Len(tasks) = 3
    /\ \A i \in 1..3 : ~tasks[i].completed
    /\ tasks[1].priority = "Medium"
    /\ tasks[2].priority = "High" /\ tasks[3].priority = "High"
    /\ shown = <<tasks[2].id, tasks[3].id, tasks[1].id>>
    /\ active_task_id = tasks[1].id

\* C9: delete(id) removes the task with that id, keeps every other task
\* (in order) and the id counter, and clears the active reference exactly
\* when it pointed at id.
C9_DeleteClearsActive ==
    [][\A task_id \in 1..(MaxId + 1) :
          (delete_task(task_id) /\ UNCHANGED notStore) =>
             /\ \A i \in 1..Len(tasks') : tasks'[i].id # task_id
             /\ \A i \in 1..Len(tasks) :
                   tasks[i].id # task_id =>
                      tasks'[i - Cardinality({j \in 1..i : tasks[j].id = task_id})]
                         = tasks[i]
             /\ Len(tasks') =
                   Cardinality({i \in 1..Len(tasks) : tasks[i].id # task_id})
             /\ active_task_id' =
                   IF active_task_id = task_id THEN None ELSE active_task_id
             /\ next_id' = next_id]_vars

\* The active task has been deleted (the reference is cleared) while
\* another task stays in the store.
C9_Witness ==
    /\ active_task_id = None
    /\ tasks # <<>>
    /\ \E task_id \in issued : ~HasTask(task_id)

\* C10: from an empty store, the id counter never decreases and grows with
\* each add, every task has a distinct id smaller than the counter, and an
\* add never gives out an id given out before.
C10_IdsNeverReused ==
    [][/\ next_id' >= next_id
       /\ StoreAdd =>
             /\ next_id' > next_id
             /\ Len(tasks') = Len(tasks) + 1
             /\ tasks'[Len(tasks')].id = next_id
             /\ tasks'[Len(tasks')].id \notin issued
       /\ \A i \in 1..Len(tasks') : tasks'[i].id < next_id'
       /\ \A i, j \in 1..Len(tasks') : i # j => tasks'[i].id # tasks'[j].id]_vars

\* Two tasks added, the first deleted, a third added: it has id 3.
C10_Witness ==
    /\ Len(tasks) = 2
    /\ tasks[1].id = 2 /\ tasks[2].id = 3
    /\ next_id = 4

\* C11: after any sequence of store operations the active reference is
\* None or the id of a task in the store; set_active_task never makes an id
\* that is not in the store the active reference.
C11_ActiveRefersToTask ==
    [][/\ (active_task_id' = None \/ \E i \in 1..Len(tasks') :
                                        tasks'[i].id = active_task_id')
       /\ \A task_id \in 0..(MaxId + 1) :
             (StoreSetActive /\ ~HasTask(task_id)) => active_task_id' # task_id]_vars

\* C12: record_pomodoro(title) on date today adds 1 to today's
\* total_pomodoros and 1 to today's counter for title, creating the entry
\* and the counter when absent, and changes no other title's counter and no
\* other date's entry; no step modifies or removes the entry of a date
\* before today.
C12_RecordTouchesOnlyToday ==
    [][/\ \A title \in StatTitles :
             (StatsRecord /\ stats' = record_pomodoro(title)) =>
                /\ RecordedOne(title)
                /\ \A other \in StatTitles \ {title} :
                      CountOn(stats', today, other) = CountOn(stats, today, other)
                /\ DOMAIN stats' = DOMAIN stats \cup {today}
                /\ DOMAIN stats'[today].tasks =
                      DOMAIN get_today_stats.tasks \cup {title}
                /\ \A d \in DOMAIN stats \ {today} : stats'[d] = stats[d]
       /\ \A d \in DOMAIN stats :
             d < today' => (d \in DOMAIN stats' /\ stats'[d] = stats[d])]_vars

\* One pomodoro for "Write report" on day 0 and two on day 1.
C12_Witness ==
    /\ today = 1
    /\ DOMAIN stats = {0, 1}
    /\ stats[0] = [total_pomodoros |-> 1, tasks |-> [x \in {"Write report"} |-> 1]]
    /\ get_today_stats.total_pomodoros = 2
    /\ get_today_stats.tasks = [x \in {"Write report"} |-> 2]

\* C13: whatever is typed in the fields of a sub-dialog (add, edit,
\* complete, delete), when the dialog ends the loop is still running and
\* goes on to render, sleep and poll.
C13_InvalidInputKeepsLoop ==
    [][DialogsDialog => (pc' = "sleep" /\ running')]_vars

\* C14: every way out of a sub-dialog, an exception included, leaves the
\* tty in cbreak mode with the Live display started; inside the ticks of
\* the loop the tty is in cbreak mode with the display started, and the tty
\* is in the saved mode only while a dialog is open or after run() has
\* ended.
C14_DialogsRestorePolling ==
    [][/\ (pc = "dialog" /\ pc' # "dialog") =>
             (terminal' = CBREAK /\ live_display' = STARTED)
       /\ pc' \in {"update", "input", "sleep", "raised"} =>
             (terminal' = CBREAK /\ live_display' = STARTED)
       /\ terminal' = terminal_settings' => pc' \in {"dialog", "exited"}]_vars

\* The edit dialog has been left by an exception.
C14_Witness ==
    /\ pc = "raised" /\ key = "e"
    /\ terminal = CBREAK /\ live_display = STARTED

\* What the loop does once running is false: it finishes the tick (render
\* and sleep), leaves at the loop test, and calls neither update() nor
\* handle_input.
QuitEndsTick ==
    /\ ~running =>
          /\ \/ pc = "sleep" /\ pc' = "update"
             \/ pc = "update" /\ pc' = "exited"
          /\ UNCHANGED <<timerVars, signal, storeVars, stats, running, show_help>>
          /\ key' = NoKey
    /\ pc' = "exited" =>
          /\ terminal' = terminal_settings'
          /\ terminal' = COOKED
          /\ live_display' = HALTED

\* C15 as claimed: whenever the loop reads the key 'q' it stops running;
\* from then on the tick is finished without update() or key dispatch and
\* the loop ends; however run() ends, the terminal is back in the mode saved
\* at startup.
C15_QuitAlwaysEndsLoop ==
    [][/\ (pc = "input" /\ key' = "q") => ~running'
       /\ QuitEndsTick]_vars

\* C15, amended: the key 'q' stops the loop when the help screen is not
\* shown; while it is shown, 'q' like any key only closes it.
C15_QuitEndsLoop ==
    [][/\ (pc = "input" /\ key' = "q" /\ ~show_help) => ~running'
       /\ (pc = "input" /\ key' = "q" /\ show_help) => (running' /\ ~show_help')
       /\ QuitEndsTick]_vars

\* The loop has ended after 'q': the tty is back in cooked mode.
C15_Witness ==
    /\ pc = "exited" /\ ~running
    /\ terminal = COOKED /\ terminal_settings = COOKED
    /\ live_display = HALTED

\* A load fails when there is no file, when the file is not a JSON object,
\* or when one of its task records cannot be constructed.
LoadFails(file) ==
    \/ file.kind # "object"
    \/ \E i \in 1..Len(file.tasks) : ~file.tasks[i].ok

\* C16: after a failed load the constructor goes on and the store is in
\* its default state: no tasks, no active reference, next id 1.
C16_FailedLoadLeavesDefault ==
    [][\A file \in TaskFiles :
          (LoadTasks /\ load_tasks(file) /\ LoadFails(file)) =>
             /\ pc' = "start"
             /\ tasks' = <<>>
             /\ active_task_id' = None
             /\ next_id' = 1]_vars

\* C17: in every state of the timer, whatever sequence of start, pause,
\* stop, skip and update led to it, 0 <= remaining_seconds <= total_seconds.
C17_RemainingInRange ==
    /\ 0 <= remaining_seconds
    /\ remaining_seconds <= total_seconds

\* A run counted down to its last second (the clock read one tick before
\* the end).
C17_Witness ==
    /\ state = RUNNING /\ ~skipped
    /\ remaining_seconds = 1
    /\ ran = Ticks(total_seconds) - 1

\* Fractions p / q with q > 0
FractionLeq(x, y) == x[1] * y[2] <= y[1] * x[2]
IsFraction(x, n) == x[1] = n * x[2]

C19_UpdateIdleUnlessRunning ==
    [][/\ (TimerUpdate /\ state # RUNNING) =>
             /\ ~signal'
             /\ UNCHANGED <<session_type, state, remaining_seconds,
                            total_seconds, pomodoros_completed>>
       /\ state' = STOPPED => remaining_seconds' = total_seconds'
       /\ (state = STOPPED /\ state' # STOPPED) => TimerStart]_vars

\* The break that follows the first Work session has not been started,
\* though the clock is past the time at which it would have ended.
C19_Witness ==
    /\ state = STOPPED /\ session_type = SHORT_BREAK
    /\ pomodoros_completed = 1
    /\ start_time # None
    /\ ~signal
    /\ remaining_seconds = 300
    /\ now >= start_time + Ticks(1500) + Ticks(300)

\* The order of a tick: update() and the handler at the top, then one poll;
\* the poll follows the update step of the same tick, a key is dispatched
\* only at the poll, and only the update step records pomodoros.
TickOrder ==
    /\ AppUpdate => (pc = "update" /\ pc' = "input" /\ key = NoKey /\ key' = NoKey)
    /\ pc' = "input" => (pc = "update" /\ AppUpdate)
    /\ AppInput => (pc = "input" /\ pc' \in {"sleep", "dialog"})
    /\ key' # key => (pc = "input" \/ key' = NoKey)
    /\ stats' # stats => (AppUpdate /\ signal')

\* C20: a tick is update(), the completion handler if update() signalled,
\* then one poll and the dispatch of at most one key; the completion of a
\* Work session detected by the tick's update() is credited in that step,
\* before the tick's key is dispatched, to the task active at that point
\* ("No task" when there is none).
C20_CompletionCreditedBeforeKey ==
    [][/\ TickOrder
       /\ (AppUpdate /\ signal' /\ session_type = WORK) =>
             IF active_task_id # None /\ HasTask(active_task_id)
             THEN LET a == Position(active_task_id)
                  IN  /\ RecordedOne(tasks[a].title)
                      /\ tasks' = [tasks EXCEPT ![a].completed_pomodoros = @ + 1]
             ELSE /\ RecordedOne("No task")
                  /\ tasks' = tasks]_vars

\* The order of the tick alone.
TickOrderHolds == [][TickOrder]_vars

\* C21: in every state of the timer total_seconds is the duration of the
\* current session type (Work 1500, ShortBreak 300, LongBreak 900), and a
\* Stopped timer has remaining_seconds = total_seconds.
C21_TotalIsSessionDuration ==
    /\ total_seconds = DurationOf(session_type)
    /\ state = STOPPED => remaining_seconds = total_seconds

\* The long break reached after four Work sessions, Stopped at its full
\* duration.
C21_Witness ==
    /\ state = STOPPED /\ session_type = LONG_BREAK
    /\ pomodoros_completed = 4
    /\ total_seconds = 900 /\ remaining_seconds = 900

\* C22: while the help screen is shown, a key of any value only closes it:
\* the loop keeps running, no dialog opens, and the timer, the task store
\* with its active reference and the statistics are as before the key;
\* update() is still called at the top of every tick, and counts the time
\* as it does with the help screen closed.
C22_AnyKeyClosesHelp ==
    [][/\ (AppInput /\ show_help /\ key' # NoKey) =>
             /\ ~show_help'
             /\ running'
             /\ pc' = "sleep"
             /\ UNCHANGED <<state, session_type, remaining_seconds, total_seconds,
                            pomodoros_completed, tasks, next_id, active_task_id,
                            stats>>
       /\ (show_help /\ pc = "update" /\ pc' # "update") => AppUpdate
       /\ (AppUpdate /\ show_help /\ state = RUNNING /\ ~skipped) =>
             IF ran < Ticks(total_seconds)
             THEN remaining_seconds' = total_seconds - (ran \div TicksPerSecond)
             ELSE signal']_vars

\* In one tick update(), called with the help screen shown, has signalled a
\* completion, and the key 'q' has closed the help screen without ending
\* the loop.
C22_Witness ==
    /\ pc = "sleep" /\ key = "q"
    /\ ~show_help /\ running
    /\ signal

\* What the key 'k' does to a timer that is not Running: the completion
\* transition at once, in the key step, with no signal from update(), no
\* change of a task and no record in the statistics; the update() of the
\* ticks that follow finds the timer Stopped and signals nothing, so the
\* handler (the only place the completion notification is emitted) is not
\* called.
SkipIsSilent ==
    /\ CompletionTransition
    /\ pc' = "sleep"
    /\ signal' = signal
    /\ tasks' = tasks /\ active_task_id' = active_task_id
    /\ stats' = stats
NoHandlerWhenIdle ==
    (AppUpdate /\ state # RUNNING) => (~signal' /\ tasks' = tasks /\ stats' = stats)

\* C23 as claimed: every key 'k' read while the timer is Stopped or Paused
\* advances the session silently.
C23_SkipKeyAdvancesSilently ==
    [][/\ (AppInput /\ key' = "k" /\ state # RUNNING) => SkipIsSilent
       /\ NoHandlerWhenIdle]_vars

\* C23, amended: the key 'k' read while the timer is Stopped or Paused and
\* the help screen is not shown advances the session silently; with the
\* help screen shown it leaves the session as it is.
C23_SkipCommandAdvancesSilently ==
    [][/\ (AppInput /\ key' = "k" /\ state # RUNNING /\ ~show_help) => SkipIsSilent
       /\ (AppInput /\ key' = "k" /\ state # RUNNING /\ show_help) =>
             UNCHANGED <<state, session_type, remaining_seconds, total_seconds,
                         pomodoros_completed, tasks, stats>>
       /\ NoHandlerWhenIdle]_vars

\* With a task active and the timer never started, 'k' has skipped the Work
\* session and then the break: nothing has been recorded.
C23_Witness ==
    /\ pc = "sleep" /\ key = "k"
    /\ start_time = None /\ state = STOPPED
    /\ session_type = WORK /\ pomodoros_completed = 1
    /\ active_task_id = 1 /\ HasTask(1)
    /\ tasks[1].completed_pomodoros = 0
    /\ DOMAIN stats = {}
    /\ ~signal

\* The sum of the counters of an entry
RECURSIVE SumOf(_, _)
SumOf(counters, titles) ==
    IF titles = {} THEN 0
    ELSE LET t == CHOOSE x \in titles : TRUE
         IN  counters[t] + SumOf(counters, titles \ {t})

\* C24: from an empty log, after any sequence of record_pomodoro calls on
\* any dates, every date entry has total_pomodoros >= 1 and total_pomodoros
\* equal to the sum of its counters, every counter in it is at least 1,
\* and no step removes an entry or a counter or makes a total or a counter
\* smaller.
C24_TotalsAreSums ==
    [][/\ \A d \in DOMAIN stats' :
             /\ stats'[d].total_pomodoros >= 1
             /\ stats'[d].total_pomodoros =
                   SumOf(stats'[d].tasks, DOMAIN stats'[d].tasks)
             /\ \A t \in DOMAIN stats'[d].tasks : stats'[d].tasks[t] >= 1
       /\ \A d \in DOMAIN stats :
             /\ d \in DOMAIN stats'
             /\ stats'[d].total_pomodoros >= stats[d].total_pomodoros
             /\ \A t \in DOMAIN stats[d].tasks :
                   /\ t \in DOMAIN stats'[d].tasks
                   /\ stats'[d].tasks[t] >= stats[d].tasks[t]]_vars

\* Two dates with entries; today's has three pomodoros under two titles.
C24_Witness ==
    /\ today = 2
    /\ DOMAIN stats = {0, 2}
    /\ stats[0].total_pomodoros = 1
    /\ stats[2].total_pomodoros = 3
    /\ DOMAIN stats[2].tasks = {"Write report", "No task"}
    /\ stats[2].tasks["Write report"] = 2
    /\ stats[2].tasks["No task"] = 1

====
